---- MODULE Spec2Model ----
(***************************************************************************)
(* The send/echo/reply state machine of ramses_rf                          *)
(* (src/ramses_rf/protocol/protocol_fsm.py): ProtocolContext, its priority *)
(* queue of pending send_cmd calls, the drain tasks (_send_next_in_queue), *)
(* the inner send (_send_cmd) and the six state classes.                   *)
(*                                                                         *)
(* One asyncio event loop runs everything: an action is what one callback  *)
(* or one coroutine does between two suspension points (await send_fnc,    *)
(* await asyncio.sleep in _wait_for_transition, await wait_for(fut)).      *)
(*                                                                         *)
(* State objects are modelled as a small heap: every set_state makes a new *)
(* object, and _send_cmd keeps references to old ones (prev_state,         *)
(* next_state) whose _next_state, _echo and _rply it reads later.          *)
(***************************************************************************)
EXTENDS Integers, Sequences, FiniteSets, TLC

\* ------------------------------------------------------------------ bounds
\* number of send_cmd calls made during a run (call i is the i-th submitted)
MaxCallers == 2

\* number of drain tasks (_send_next_in_queue) alive at the same time
MaxTasks == 2

\* ------------------------------------------------------- program constants
MAX_BUFFER_SIZE == 10

DEFAULT_MAX_RETRIES == 3

DEFAULT_PRIORITY == 0

\* ---------------------------------------------------------------- commands
\* A Command as the FSM sees it: verb, code, _hdr (= tx_header), rx_header,
\* _addrs and payload.  W0 and W1 share header and addresses and differ in
\* payload only; PZ is a puzzle command (code _PUZZ, 7FFF).
None == "None"

CmdTable ==
    [ II  |-> [verb |-> "I",  code |-> "1F09", hdr |-> "1F09|I|01:006056",
               rx |-> None, addrs |-> "01:006056 --:------ 01:006056", payload |-> "0005C8"],
      RQ0 |-> [verb |-> "RQ", code |-> "12B0", hdr |-> "12B0|RQ|01:222222|00",
               rx |-> "12B0|RP|01:222222|00", addrs |-> "18:000730 01:222222 --:------", payload |-> "00"],
      W0  |-> [verb |-> "W",  code |-> "2309", hdr |-> "2309|W|01:222222|00",
               rx |-> "2309|I|01:222222|00", addrs |-> "18:000730 01:222222 --:------", payload |-> "0001F4"],
      W1  |-> [verb |-> "W",  code |-> "2309", hdr |-> "2309|W|01:222222|00",
               rx |-> "2309|I|01:222222|00", addrs |-> "18:000730 01:222222 --:------", payload |-> "0003E8"],
      PZ  |-> [verb |-> "I",  code |-> "7FFF", hdr |-> "7FFF|I|18:000730",
               rx |-> None, addrs |-> "18:000730 63:262142 --:------", payload |-> "0010"] ]

Cmds == DOMAIN CmdTable

tx_header(c) == CmdTable[c].hdr

rx_header(c) == CmdTable[c].rx

\* the headers a received packet can carry: every echo, every reply, and one
\* that belongs to no command
PktHdrs == {tx_header(c) : c \in Cmds} \cup ({rx_header(c) : c \in Cmds} \ {None})
             \cup {"30C9|I|04:111111"}

\* the (cmd, wait_for_reply) pairs send_cmd is called with: for each command
\* that has an rx_header, once so that the reply is waited for and once so
\* that it is not
SendOpts ==
    {<<"II", "None">>, <<"RQ0", "None">>, <<"RQ0", "False">>,
     <<"W0", "None">>, <<"W0", "True">>}


\* ------------------------------------------------------------------- state
Callers == 1..MaxCallers

\* the send_cmd calls there is room for: as many as fill the queue, and one
\* more
CallIds == 1..(MAX_BUFFER_SIZE + 1)

TaskIds == 1..MaxTasks

\* cur, one watched object per task and the object that one moved on to
NumObjs == 2 * MaxTasks + 2

ObjIds == 1..NumObjs

StateClasses == {"Inactive", "IsPaused", "IsInIdle", "WantEcho", "WantRply", "IsFailed"}

\* values of ProtocolContext._proc_queue_task: None, a finished task, or the
\* id of a task that is not done()
NoTask == -1

DoneTask == 0

VARIABLES
    objs,      \* the state objects: cls, cmd, cmd_sends, _next_state, _echo, _rply
    cur,       \* ProtocolContext._state, a reference into objs
    mutex,     \* ProtocolContext._mutex is held
    procTask,  \* ProtocolContext._proc_queue_task
    tasks,     \* the _send_next_in_queue tasks of the event loop
    que,       \* ProtocolContext._que.queue, the heap list of entries
    calls,     \* the send_cmd calls: arguments, future, position, outcome,
               \* and whether writing was paused with its command active
    err,       \* what the last step raised, if it was a call of a transport
               \* callback or of a state method (None: it returned)
    link,      \* the transport: "new", "open" (connection_made was called) or
               \* "closed" (connection_lost was called)
    qlock,     \* ProtocolContext._que.mutex, the lock of the queue.Queue:
               \* "free", "held", or "blocked" when the thread of the event
               \* loop waits for it
    cmd,       \* the frame last given to _pkt_hdr and the headers it got
    gwy,       \* the gateway: device_by_id, _prev_pkt, and the last frame
    tcs,       \* the System: zone_by_idx, zones, _dhw, and the last call
    job,       \* the task of schedule_task: its position and its runs
    fn         \* the last call of a function of helpers.py or of a property
               \* of a zone: its arguments and what it returned

\* the variables of the protocol context and its event loop
fsmVars == <<objs, cur, mutex, procTask, tasks, que, calls, err, link, qlock>>

\* the variables of the packet layer, of the zones and of the scheduler
appVars == <<cmd, gwy, tcs, job, fn>>

vars == <<objs, cur, mutex, procTask, tasks, que, calls, err, link, qlock,
          cmd, gwy, tcs, job, fn>>

FreeObj ==
    [cls |-> "free", cmd |-> None, own |-> 0, sends |-> 0,
     next |-> 0, nextCls |-> None, echo |-> None, rply |-> None]

FreeTask == [st |-> "free", call |-> 0, watch |-> 0, cancel |-> FALSE]

NewTask == [st |-> "new", call |-> 0, watch |-> 0, cancel |-> FALSE]

NoCall ==
    [pc |-> "idle", cmd |-> None, wfr |-> "None", fut |-> "none", val |-> None,
     inner |-> None, ntx |-> 0, res |-> None, paused |-> FALSE]

\* ProtocolStateBase.__init__: a new state object
ProtocolStateBase(cls, c, o, n) ==
    [cls |-> cls, cmd |-> c, own |-> o, sends |-> n,
     next |-> 0, nextCls |-> None, echo |-> None, rply |-> None]

\* the state as a value the handlers work on; exc is the exception in flight,
\* "Bound" marks a step the bounds do not have room for
Ctx == [objs |-> objs, cur |-> cur, mutex |-> mutex, procTask |-> procTask,
        tasks |-> tasks, que |-> que, calls |-> calls, link |-> link,
        qlock |-> qlock, exc |-> None]

FreeIds(o) == {i \in ObjIds : o[i].cls = "free"}

FreeTasks(t) == {i \in TaskIds : t[i].st = "free"}

Least(S) == CHOOSE i \in S : \A j \in S : i <= j

\* loop.create_task(self._send_next_in_queue())
create_task(s) ==
    IF FreeTasks(s.tasks) = {} THEN [s EXCEPT !.exc = "Bound"]
    ELSE [s EXCEPT !.tasks[Least(FreeTasks(s.tasks))] = NewTask]

\* ProtocolContext._process_queue
_process_queue(s) ==
    IF s.mutex THEN s
    ELSE IF s.procTask = NoTask THEN [s EXCEPT !.mutex = TRUE, !.exc = "AttributeError"]
    ELSE IF s.procTask = DoneTask THEN create_task(s)
    ELSE s

\* ProtocolContext.set_state
set_state(s, cls, c, o, n) ==
    LET id == Least(FreeIds(s.objs))
        obj == IF cls \in {"IsInIdle", "IsFailed"}
               THEN ProtocolStateBase(cls, None, 0, 0)
               ELSE ProtocolStateBase(cls, c, o, n)
        s1 == [s EXCEPT !.objs[id] = obj, !.cur = id]
    IN  IF cls \in {"IsInIdle", "IsFailed"} THEN _process_queue(s1) ELSE s1

\* ProtocolStateBase._set_context_state, called on the current state object
_set_context_state(s, cls, c, o, n) ==
    LET old == s.cur
        s1 == set_state(s, cls, c, o, n)
    IN  IF s1.exc # None THEN s1
        ELSE [s1 EXCEPT !.objs[old].next = s1.cur, !.objs[old].nextCls = cls]

\* the objects something still refers to
Live(s) ==
    LET watched == {s.tasks[t].watch : t \in TaskIds} \ {0}
    IN  {s.cur} \cup watched \cup ({s.objs[w].next : w \in watched} \ {0})

\* a send_cmd call that has ended, with nothing left that refers to its entry
Settled(s, i) ==
    /\ s.calls[i].pc \in {"returned", "raised"}
    /\ \A k \in 1..Len(s.que) : s.que[k] # i
    /\ \A t \in TaskIds : s.tasks[t].call # i

\* garbage collection: unreferenced objects go, and so do references to them
\* (nextCls keeps what isinstance(_next_state, ...) needs); of a settled call
\* its arguments, the state of its future and what the caller got are kept,
\* and the mark paused is kept while a task runs _send_cmd for the call
Collect(s) ==
    LET live == Live(s)
    IN  [s EXCEPT
            !.objs = [i \in ObjIds |->
                IF i \notin live THEN FreeObj
                ELSE IF s.objs[i].next \notin live THEN [s.objs[i] EXCEPT !.next = 0]
                ELSE s.objs[i]],
            !.calls = [i \in CallIds |->
                IF Settled(s, i)
                THEN [s.calls[i] EXCEPT !.val = None, !.inner = None, !.ntx = 0,
                                        !.paused = FALSE]
                ELSE IF \A t \in TaskIds : s.tasks[t].call # i
                THEN [s.calls[i] EXCEPT !.paused = FALSE]
                ELSE s.calls[i]]]

\* the references that keep objects alive, in a fixed order: the context's,
\* then each task's watched object and the object that one moved on to
Refs(s) ==
    [k \in 1..(2 * MaxTasks + 1) |->
        IF k = 1 THEN s.cur
        ELSE LET w == s.tasks[k \div 2].watch
             IN  IF k % 2 = 0 THEN w ELSE IF w = 0 THEN 0 ELSE s.objs[w].next]

\* the place of every object among the distinct objects of Refs(s), 0 for an
\* object that nothing refers to
Ranks(refs) ==
    [id \in ObjIds |->
        IF \E k \in DOMAIN refs : refs[k] = id
        THEN LET first == Least({k \in DOMAIN refs : refs[k] = id})
             IN  Cardinality({refs[k] : k \in 1..first} \ {0})
        ELSE 0]

Renumber(s, rank) ==
    [s EXCEPT
        !.objs = [n \in ObjIds |->
            IF \E id \in ObjIds : rank[id] = n
            THEN LET o == s.objs[CHOOSE id \in ObjIds : rank[id] = n]
                 IN  [o EXCEPT !.next = IF o.next = 0 THEN 0 ELSE rank[o.next]]
            ELSE FreeObj],
        !.cur = rank[s.cur],
        !.tasks = [t \in TaskIds |->
            [s.tasks[t] EXCEPT !.watch = IF @ = 0 THEN 0 ELSE rank[@]]]]

\* object identities carry no meaning: the live objects are numbered in the
\* order of Refs(s), so that equal heaps are equal states
Canon(s) == CHOOSE r \in {Renumber(s, rank) : rank \in {Ranks(Refs(s))}} : TRUE

\* a handler that ran to its end or raised e: the new state; nothing runs
\* once the thread of the event loop is blocked
Commit(s, e) ==
    \E v \in {s} :
        /\ qlock # "blocked"
        /\ v.exc # "Bound"
        /\ \E g \in {Canon(Collect(v))} :
              /\ objs' = g.objs
              /\ cur' = g.cur
              /\ mutex' = g.mutex
              /\ procTask' = g.procTask
              /\ tasks' = g.tasks
              /\ que' = g.que
              /\ calls' = g.calls
              /\ link' = g.link
              /\ qlock' = g.qlock
              /\ err' = e
              /\ UNCHANGED appVars

\* a transport callback or a state method was called: what it raised is kept
Callback(s) == \E v \in {s} : Commit(v, v.exc)

\* a step of a send_cmd call or of a task
Step(s) == Commit(s, None)

state == objs[cur]

\* ---------------------------------------------------------- the state classes
\* ProtocolStateBase.is_active_cmd: verb is never the code _PUZZ ("7FFF")
is_active_cmd(st, c) ==
    IF CmdTable[c].verb = "7FFF" THEN TRUE
    ELSE /\ st.cmd # None
         /\ CmdTable[c].hdr = CmdTable[st.cmd].hdr
         /\ CmdTable[c].addrs = CmdTable[st.cmd].addrs
         /\ CmdTable[c].payload = CmdTable[st.cmd].payload

\* sent_cmd with a WantEcho/WantRply that starts over in WantEcho for a
\* command sent again, as IsInIdle does for a new one
sent_cmd_StartsOver(s, c, o, max_retries) ==
    LET st == s.objs[s.cur]
    IN  CASE st.cls = "IsInIdle" -> _set_context_state(s, "WantEcho", c, o, 1)
          [] st.cls \in {"WantEcho", "WantRply"} ->
                IF ~is_active_cmd(st, c) THEN [s EXCEPT !.exc = "ProtocolFsmError"]
                ELSE IF st.sends > max_retries THEN [s EXCEPT !.exc = "ProtocolSendFailed"]
                ELSE _set_context_state(s, "WantEcho", c, o, st.sends + 1)
          [] OTHER -> [s EXCEPT !.exc = "ProtocolFsmError"]

\* sent_cmd with the check of WantEcho/WantRply for the active command left
\* out: any command counts as a retransmission
sent_cmd_AnyCmd(s, c, o, max_retries) ==
    LET st == s.objs[s.cur]
    IN  CASE st.cls = "IsInIdle" -> _set_context_state(s, "WantEcho", c, o, 1)
          [] st.cls \in {"WantEcho", "WantRply"} ->
                IF st.sends > max_retries THEN [s EXCEPT !.exc = "ProtocolSendFailed"]
                ELSE [s EXCEPT !.objs[s.cur].sends = st.sends + 1]
          [] OTHER -> [s EXCEPT !.exc = "ProtocolFsmError"]

\* <State>.sent_cmd(cmd, max_retries) on the current state; o is the call
\* whose Command object cmd is (0: none of the send_cmd calls)
sent_cmd(s, c, o, max_retries) ==
    LET st == s.objs[s.cur]
    IN  CASE st.cls = "IsInIdle" -> _set_context_state(s, "WantEcho", c, o, 1)
          [] st.cls \in {"WantEcho", "WantRply"} ->
                IF ~is_active_cmd(st, c) THEN [s EXCEPT !.exc = "ProtocolFsmError"]
                ELSE IF st.sends > max_retries THEN [s EXCEPT !.exc = "ProtocolSendFailed"]
                ELSE [s EXCEPT !.objs[s.cur].sends = st.sends + 1]
          [] OTHER -> [s EXCEPT !.exc = "ProtocolFsmError"]

\* rcvd_pkt with a WantRply that takes a further echo for the echo of a
\* retransmission and waits for the reply afresh, in a new WantRply
rcvd_pkt_EchoStartsOver(s, h) ==
    LET st == s.objs[s.cur]
    IN  CASE st.cls = "WantEcho" ->
                IF rx_header(st.cmd) # None /\ h = rx_header(st.cmd)
                THEN [s EXCEPT !.exc = "ProtocolFsmError"]
                ELSE IF h # tx_header(st.cmd) THEN s
                ELSE IF rx_header(st.cmd) # None
                THEN _set_context_state([s EXCEPT !.objs[s.cur].echo = h],
                                        "WantRply", st.cmd, st.own, st.sends)
                ELSE _set_context_state([s EXCEPT !.objs[s.cur].echo = h],
                                        "IsInIdle", None, 0, 0)
          [] st.cls = "WantRply" ->
                IF h = tx_header(st.cmd)
                THEN _set_context_state(s, "WantRply", st.cmd, st.own, 1)
                ELSE IF h # rx_header(st.cmd) THEN s
                ELSE _set_context_state([s EXCEPT !.objs[s.cur].rply = h],
                                        "IsInIdle", None, 0, 0)
          [] OTHER -> s

\* rcvd_pkt with a WantEcho that does not look for a reply before the echo
rcvd_pkt_NoOrderCheck(s, h) ==
    LET st == s.objs[s.cur]
    IN  CASE st.cls = "WantEcho" ->
                IF h # tx_header(st.cmd) THEN s
                ELSE IF rx_header(st.cmd) # None
                THEN _set_context_state([s EXCEPT !.objs[s.cur].echo = h],
                                        "WantRply", st.cmd, st.own, st.sends)
                ELSE _set_context_state([s EXCEPT !.objs[s.cur].echo = h],
                                        "IsInIdle", None, 0, 0)
          [] st.cls = "WantRply" ->
                IF h = tx_header(st.cmd) THEN s
                ELSE IF h # rx_header(st.cmd) THEN s
                ELSE _set_context_state([s EXCEPT !.objs[s.cur].rply = h],
                                        "IsInIdle", None, 0, 0)
          [] OTHER -> s

\* rcvd_pkt with a WantEcho that hands the command on to WantRply without
\* its cmd_sends, which is then the default of ProtocolStateBase, 0
rcvd_pkt_DropsCount(s, h) ==
    LET st == s.objs[s.cur]
    IN  CASE st.cls = "WantEcho" ->
                IF rx_header(st.cmd) # None /\ h = rx_header(st.cmd)
                THEN [s EXCEPT !.exc = "ProtocolFsmError"]
                ELSE IF h # tx_header(st.cmd) THEN s
                ELSE IF rx_header(st.cmd) # None
                THEN _set_context_state([s EXCEPT !.objs[s.cur].echo = h],
                                        "WantRply", st.cmd, st.own, 0)
                ELSE _set_context_state([s EXCEPT !.objs[s.cur].echo = h],
                                        "IsInIdle", None, 0, 0)
          [] st.cls = "WantRply" ->
                IF h = tx_header(st.cmd) THEN s
                ELSE IF h # rx_header(st.cmd) THEN s
                ELSE _set_context_state([s EXCEPT !.objs[s.cur].rply = h],
                                        "IsInIdle", None, 0, 0)
          [] OTHER -> s

\* rcvd_pkt with a WantEcho that takes every packet that is not the reply
\* for the echo
rcvd_pkt_AnyEcho(s, h) ==
    LET st == s.objs[s.cur]
    IN  CASE st.cls = "WantEcho" ->
                IF rx_header(st.cmd) # None /\ h = rx_header(st.cmd)
                THEN [s EXCEPT !.exc = "ProtocolFsmError"]
                ELSE IF rx_header(st.cmd) # None
                THEN _set_context_state([s EXCEPT !.objs[s.cur].echo = h],
                                        "WantRply", st.cmd, st.own, st.sends)
                ELSE _set_context_state([s EXCEPT !.objs[s.cur].echo = h],
                                        "IsInIdle", None, 0, 0)
          [] st.cls = "WantRply" ->
                IF h = tx_header(st.cmd) THEN s
                ELSE IF h # rx_header(st.cmd) THEN s
                ELSE _set_context_state([s EXCEPT !.objs[s.cur].rply = h],
                                        "IsInIdle", None, 0, 0)
          [] OTHER -> s

\* <State>.rcvd_pkt(pkt) on the current state; a packet is known by its _hdr
rcvd_pkt(s, h) ==
    LET st == s.objs[s.cur]
    IN  CASE st.cls = "WantEcho" ->
                IF rx_header(st.cmd) # None /\ h = rx_header(st.cmd)
                THEN [s EXCEPT !.exc = "ProtocolFsmError"]
                ELSE IF h # tx_header(st.cmd) THEN s
                ELSE IF rx_header(st.cmd) # None
                THEN _set_context_state([s EXCEPT !.objs[s.cur].echo = h],
                                        "WantRply", st.cmd, st.own, st.sends)
                ELSE _set_context_state([s EXCEPT !.objs[s.cur].echo = h],
                                        "IsInIdle", None, 0, 0)
          [] st.cls = "WantRply" ->
                IF h = tx_header(st.cmd) THEN s
                ELSE IF h # rx_header(st.cmd) THEN s
                ELSE _set_context_state([s EXCEPT !.objs[s.cur].rply = h],
                                        "IsInIdle", None, 0, 0)
          [] OTHER -> s

\* ProtocolStateBase.made_connection; paused is protocol._pause_writing
made_connection(s, paused) ==
    IF paused THEN _set_context_state(s, "IsPaused", None, 0, 0)
    ELSE _set_context_state(s, "IsInIdle", None, 0, 0)

lost_connection(s) == _set_context_state(s, "Inactive", None, 0, 0)

\* ProtocolStateBase.writing_paused; the call whose command is dropped here
\* is marked (paused), for what becomes of it later
writing_paused(s) ==
    LET i == s.objs[s.cur].own
        s1 == IF i # 0 THEN [s EXCEPT !.calls[i].paused = TRUE] ELSE s
    IN  _set_context_state(s1, "IsPaused", None, 0, 0)

writing_resumed(s) == _set_context_state(s, "IsInIdle", None, 0, 0)


\* ------------------------------------------------------- the priority queue
\* an entry (priority, dt_sent, cmd, dt_expires, send_coro, fut) is known by
\* the number i of its send_cmd call; call i is made after call i-1
dt_sent(i) == i

\* send_cmd puts every entry with DEFAULT_PRIORITY
priority(i) == DEFAULT_PRIORITY

\* tuple comparison of two entries: priority first, then dt_sent
EntryLess(a, b) ==
    \/ priority(a) < priority(b)
    \/ priority(a) = priority(b) /\ dt_sent(a) < dt_sent(b)

\* heapq._siftdown(heap, startpos, pos) for the item x (positions from 1)
RECURSIVE _siftdown(_, _, _, _)
_siftdown(heap, startpos, pos, x) ==
    IF pos > startpos /\ EntryLess(x, heap[pos \div 2])
    THEN _siftdown([heap EXCEPT ![pos] = heap[pos \div 2]], startpos, pos \div 2, x)
    ELSE [heap EXCEPT ![pos] = x]

\* heapq._siftup(heap, pos) for the item x taken from pos
RECURSIVE _siftup(_, _, _, _)
_siftup(heap, startpos, pos, x) ==
    LET left == 2 * pos
        right == left + 1
        child == IF right <= Len(heap) /\ ~EntryLess(heap[left], heap[right])
                 THEN right ELSE left
    IN  IF left <= Len(heap)
        THEN _siftup([heap EXCEPT ![pos] = heap[child]], startpos, child, x)
        ELSE _siftdown([heap EXCEPT ![pos] = x], startpos, pos, x)

\* PriorityQueue._put
heappush(heap, x) == _siftdown(Append(heap, x), 1, Len(heap) + 1, x)

\* PriorityQueue._get: the item returned and the heap left
heappop(heap) ==
    LET last == heap[Len(heap)]
        rest == SubSeq(heap, 1, Len(heap) - 1)
    IN  IF rest = <<>> THEN [item |-> last, heap |-> rest]
        ELSE [item |-> heap[1], heap |-> _siftup(rest, 1, 1, last)]

\* a test of the future that misses cancellation: done with a result or an
\* exception only
is_future_done_NotCancelled(cs, i) == cs[i].fut \in {"result", "exception"}

\* fut.done() of the entry of call i (is_future_done of send_cmd, and the
\* tests fut.cancelled() / fut.done() of the drain)
is_future_done(cs, i) == cs[i].fut \in {"result", "exception", "cancelled"}

\* Lock.acquire() on the queue's lock, as every method of queue.Queue does it:
\* the lock is not reentrant, a thread that asks for it again waits for ever
acquire(s) ==
    IF s.qlock = "free" THEN [s EXCEPT !.qlock = "held"]
    ELSE [s EXCEPT !.qlock = "blocked"]

\* the block of remove_entries(queue, is_future_done), lines 194-197:
\* list.remove of every entry whose future is done, the heap list otherwise
\* left as it is
remove_entries_block(heap, cs) == SelectSeq(heap, LAMBDA i : ~is_future_done(cs, i))

\* remove_entries(queue, is_future_done) as line 193 has it, "with
\* queue.mutex.acquire():": acquire() takes the lock and returns True, which
\* is no context manager, so the with statement raises TypeError before its
\* block is run and with the lock still held
remove_entries(s) ==
    LET s1 == acquire(s)
    IN  IF s1.qlock = "blocked" THEN s1 ELSE [s1 EXCEPT !.exc = "TypeError"]

\* _send_next_in_queue without its test of dt_expires: an entry whose
\* deadline has passed is activated like any other
RECURSIVE _send_next_in_queue_NoExpiry(_, _, _)
_send_next_in_queue_NoExpiry(heap, cs, E) ==
    IF heap = <<>> THEN [que |-> heap, calls |-> cs, pick |-> 0]
    ELSE LET got == heappop(heap)
             i == got.item
         IN  IF is_future_done(cs, i) THEN _send_next_in_queue_NoExpiry(got.heap, cs, E)
             ELSE [que |-> got.heap, calls |-> cs, pick |-> i]

\* ProtocolContext._send_next_in_queue up to the entry it activates: entries
\* whose future is done are dropped, those of E (dt_expires <= dt.now()) fail
\* with _ProtocolWaitFailed
RECURSIVE _send_next_in_queue(_, _, _)
_send_next_in_queue(heap, cs, E) ==
    IF heap = <<>> THEN [que |-> heap, calls |-> cs, pick |-> 0]
    ELSE LET got == heappop(heap)
             i == got.item
         IN  IF is_future_done(cs, i) THEN _send_next_in_queue(got.heap, cs, E)
             ELSE IF i \in E
             THEN _send_next_in_queue(got.heap,
                      [cs EXCEPT ![i].fut = "exception", ![i].val = "_ProtocolWaitFailed"],
                      E)
             ELSE [que |-> got.heap, calls |-> cs, pick |-> i]

\* ------------------------------------------------- before anything is done
\* no frame has been given to _pkt_hdr
NoCommand == [pkt |-> None, tx |-> None, rx |-> None]

\* no Packet: the None that _prev_pkt holds before the first packet
NoPacket == [rssi |-> None]

\* a Gateway with no device and no previous packet
NewGateway ==
    [device_by_id |-> {}, prev_pkt |-> NoPacket, frame |-> NoPacket, res |-> None]

\* the zone indexes given to Zone(tcs, zone_idx), as the two hex digits of a
\* frame
ZoneIdxs == {"00", "01", "02", "03", "04", "05"}

\* a System with no zone and no DHW: zone_by_idx holds no key (0: the key is
\* absent, else the place of the Zone object in objs), zones is empty, _dhw
\* is None (0); objs are the zone objects made so far, res is the outcome of
\* the last call (None, or the exception it raised), now is dt.now() in
\* minutes, sent are the codes of the commands of the last _discover
NewSystem ==
    [zone_by_idx |-> [i \in ZoneIdxs |-> 0], zones |-> <<>>, dhw |-> 0,
     objs |-> <<>>, res |-> None, now |-> 0, sent |-> <<>>]

\* no function has been called
NoFn == [op |-> None]

\* schedule_task has not been called: no task, no run of func; now is the
\* time since the call, last the time of the last run of func (-1: none),
\* gap the time between the last run and the one before it (-1: none)
NoJob ==
    [pc |-> "none", delay |-> 0, period |-> 0, left |-> 0, runs |-> 0,
     now |-> 0, last |-> -1, gap |-> -1]

\* --------------------------------------------------------------------- Init
\* ProtocolContext.__init__: set_state(Inactive), an empty queue, a free lock
Init ==
    /\ objs = [i \in ObjIds |-> IF i = 1 THEN ProtocolStateBase("Inactive", None, 0, 0)
                                ELSE FreeObj]
    /\ cur = 1
    /\ mutex = FALSE
    /\ procTask = NoTask
    /\ tasks = [t \in TaskIds |-> FreeTask]
    /\ que = <<>>
    /\ calls = [i \in CallIds |-> NoCall]
    /\ err = None
    /\ link = "new"
    /\ qlock = "free"
    /\ cmd = NoCommand
    /\ gwy = NewGateway
    /\ tcs = NewSystem
    /\ job = NoJob
    /\ fn = NoFn

\* ------------------------------------------------- the transport's callbacks
\* ProtocolContext.connection_made
connection_made(paused) ==
    LET s1 == made_connection(Ctx, paused)
        s2 == create_task(s1)
        s3 == IF s2.exc # None THEN s2
              ELSE [s2 EXCEPT !.procTask = Least(FreeTasks(s1.tasks))]
    IN  Callback([(IF s1.exc # None THEN s1 ELSE s3) EXCEPT !.link = "open"])

\* ProtocolContext.connection_lost; its first get_nowait() asks for the
\* queue's lock
connection_lost ==
    LET s1 == lost_connection(Ctx)
        s2 == IF s1.procTask \in TaskIds
              THEN [s1 EXCEPT !.tasks[s1.procTask].cancel = TRUE]
              ELSE s1
    IN  IF acquire(s2).qlock = "blocked"
        THEN Callback([acquire(s2) EXCEPT !.link = "closed"])
        ELSE
        Callback([s2 EXCEPT
            !.link = "closed",
            !.que = <<>>,
            !.calls = [i \in CallIds |->
                IF (\E k \in 1..Len(que) : que[k] = i) /\ calls[i].fut = "pending"
                THEN [calls[i] EXCEPT !.fut = "cancelled"]
                ELSE calls[i]]])

\* ProtocolContext.pause_writing
pause_writing == Callback(writing_paused(Ctx))

\* ProtocolContext.resume_writing
resume_writing == Callback(writing_resumed(Ctx))

\* ProtocolContext.pkt_received
pkt_received(h) == Callback(rcvd_pkt(Ctx, h))

\* state.sent_cmd(cmd, max_retries) called on the context's state with a
\* Command that belongs to none of the send_cmd calls
SentCmd(c) == Callback(sent_cmd(Ctx, c, 0, DEFAULT_MAX_RETRIES))


\* ------------------------------------------------------------ send_cmd calls
\* what the caller of send_cmd gets for a future that failed or timed out: the
\* handler's _LOGGER.eror(...) raises AttributeError before ProtocolSendFailed
send_cmd_except == "AttributeError"

\* lines 212-225 of send_cmd, for the heap list kept that remove_entries
\* leaves: put_nowait, _process_queue, and up to "await wait_for(fut, timeout)"
send_cmd_queues(i, c, w, kept) ==
    LET full == Len(kept) >= MAX_BUFFER_SIZE
        s1 == _process_queue(Ctx)
        new == [NoCall EXCEPT !.cmd = c, !.wfr = w]
    IN  Step([s1 EXCEPT
            !.exc = IF @ = "Bound" THEN @ ELSE None,
            !.que = IF full THEN kept ELSE heappush(kept, i),
            !.calls[i] =
                IF s1.exc # None
                THEN [new EXCEPT !.pc = "raised", !.res = s1.exc,
                                 !.fut = IF full THEN "exception" ELSE "pending",
                                 !.val = IF full THEN "ProtocolFsmError" ELSE None]
                ELSE IF full
                THEN [new EXCEPT !.pc = "raised", !.res = send_cmd_except,
                                 !.fut = "exception", !.val = "ProtocolFsmError"]
                ELSE [new EXCEPT !.pc = "waiting", !.fut = "pending"]])

\* ProtocolContext.send_cmd: the future is made, then remove_entries raises
\* out of send_cmd (or never returns), before anything is put into the queue
send_cmd(i, c, w) ==
    /\ calls[i].pc = "idle"
    /\ i > 1 => calls[i - 1].pc # "idle"
    /\ LET s1 == remove_entries(Ctx)
           new == [NoCall EXCEPT !.cmd = c, !.wfr = w, !.fut = "pending"]
       IN  IF s1.qlock = "blocked"
           THEN Step([s1 EXCEPT !.calls[i] = [new EXCEPT !.pc = "blocked"]])
           ELSE IF s1.exc # None
           THEN Step([s1 EXCEPT !.exc = None,
                                !.calls[i] = [new EXCEPT !.pc = "raised", !.res = s1.exc]])
           ELSE send_cmd_queues(i, c, w, s1.que)

\* send_cmd with line 193 passed: the block of remove_entries and the rest of
\* send_cmd, which the call as written never gets to
send_cmd_past_193(i, c, w) ==
    /\ calls[i].pc = "idle"
    /\ i > 1 => calls[i - 1].pc # "idle"
    /\ send_cmd_queues(i, c, w, remove_entries_block(que, calls))

\* send_cmd resumes from wait_for(fut, timeout) with the future done
send_cmd_wakes(i) ==
    /\ calls[i].pc = "waiting"
    /\ is_future_done(calls, i)
    /\ Step([Ctx EXCEPT !.calls[i] =
          CASE calls[i].fut = "result" ->
                  [calls[i] EXCEPT !.pc = "returned", !.res = calls[i].val]
            [] calls[i].fut = "exception" ->
                  [calls[i] EXCEPT !.pc = "raised", !.res = send_cmd_except]
            [] OTHER ->
                  [calls[i] EXCEPT !.pc = "raised", !.res = "CancelledError"]])

\* wait_for(fut, timeout) times out: it cancels the future and raises
\* TimeoutError into send_cmd
send_cmd_timeout(i) ==
    /\ calls[i].pc = "waiting"
    /\ calls[i].fut = "pending"
    /\ Step([Ctx EXCEPT !.calls[i].pc = "raised", !.calls[i].res = send_cmd_except,
                        !.calls[i].fut = "cancelled"])

\* the caller's task is cancelled while in wait_for, which cancels the future
send_cmd_cancelled(i) ==
    /\ calls[i].pc = "waiting"
    /\ calls[i].fut = "pending"
    /\ Step([Ctx EXCEPT !.calls[i].pc = "raised", !.calls[i].res = "CancelledError",
                        !.calls[i].fut = "cancelled"])


\* ------------------------------------------------------------ the drain tasks
\* the task t ends (returned, raised or was cancelled): done() is true now
TaskEnds(s, t) ==
    [s EXCEPT !.tasks[t] = FreeTask,
              !.procTask = IF s.procTask = t THEN DoneTask ELSE s.procTask]

\* _send_cmd raised exc out of "fut.set_result(await send_coro)": the task
\* ends with the exception and the future is left as it was
InnerFails(s, t, i, exc) ==
    Step([TaskEnds(s, t) EXCEPT !.calls[i].inner = exc])

\* _send_cmd returned pkt: fut.set_result(pkt), which raises InvalidStateError
\* if the future is done already
InnerReturns(s, t, i, pkt) ==
    Step([TaskEnds(s, t) EXCEPT
            !.calls[i].inner = "ok",
            !.calls[i].fut = IF s.calls[i].fut = "pending" THEN "result" ELSE @,
            !.calls[i].val = IF s.calls[i].fut = "pending" THEN pkt ELSE @])

\* the first run of a drain task: _send_next_in_queue, whose get_nowait()
\* asks for the queue's lock, and for the entry it activates _send_cmd up to
\* its first "await send_fnc(cmd)"; E are the entries whose dt_expires has
\* passed
TaskStart(t, E) ==
    /\ tasks[t].st = "new"
    /\ ~tasks[t].cancel
    /\ LET d == _send_next_in_queue(que, calls, E)
           i == d.pick
           s0 == [Ctx EXCEPT !.que = d.que, !.calls = d.calls]
       IN  IF qlock # "free" THEN Step(acquire(Ctx))
           ELSE IF i = 0 THEN Step(TaskEnds(s0, t))
           ELSE IF state.cls # "IsInIdle"
           THEN InnerFails(s0, t, i, "_ProtocolWaitFailed")
           ELSE LET s1 == sent_cmd(s0, calls[i].cmd, i, DEFAULT_MAX_RETRIES)
                IN  Step([s1 EXCEPT !.tasks[t].st = "sending", !.tasks[t].call = i,
                                    !.calls[i].ntx = @ + 1])

\* send_fnc(cmd) has returned: _send_cmd goes on to _wait_for_rcvd_echo and
\* its first look at this_state._next_state
TaskSent(t) ==
    /\ tasks[t].st = "sending"
    /\ ~tasks[t].cancel
    /\ IF state.cls # "WantEcho"
       THEN InnerFails(Ctx, t, tasks[t].call, "_ProtocolEchoFailed")
       ELSE Step([Ctx EXCEPT !.tasks[t].st = "waitEcho", !.tasks[t].watch = cur])

\* _wait_for_rcvd_rply(r) has seen r._next_state: the end of _send_cmd
RplyDone(s, t, i, r) ==
    IF s.objs[r].nextCls # "IsInIdle" \/ s.objs[r].rply = None
    THEN InnerFails(s, t, i, "_ProtocolRplyFailed")
    ELSE InnerReturns(s, t, i, s.objs[r].rply)

\* no reply is waited for: lines 306-310 of _send_cmd
returns_echo(c, w) ==
    \/ w = "False"
    \/ w = "None" /\ CmdTable[c].verb # "RQ"
    \/ CmdTable[c].code = "1FC9"

\* _wait_for_transition sees the _next_state of the watched WantEcho
TaskPollEcho(t) ==
    LET i == tasks[t].call
        c == calls[i].cmd
        w == objs[tasks[t].watch]
        r == w.next
    IN  /\ tasks[t].st = "waitEcho"
        /\ ~tasks[t].cancel
        /\ w.nextCls # None
        /\ IF \/ w.nextCls # (IF rx_header(c) # None THEN "WantRply" ELSE "IsInIdle")
              \/ state.cls \notin {"WantRply", "IsInIdle"}
              \/ w.echo = None
           THEN InnerFails(Ctx, t, i, "_ProtocolEchoFailed")
           ELSE IF rx_header(c) = None
           THEN InnerReturns(Ctx, t, i, w.echo)
           ELSE IF returns_echo(c, calls[i].wfr)
           THEN LET s1 == set_state(Ctx, "IsInIdle", None, 0, 0)
                IN  /\ s1.exc # "Bound"
                    /\ InnerFails([s1 EXCEPT !.exc = None], t, i,
                                  IF s1.exc # None THEN s1.exc ELSE "_ProtocolEchoFailed")
           ELSE IF objs[r].nextCls # None
           THEN RplyDone(Ctx, t, i, r)
           ELSE Step([Ctx EXCEPT !.tasks[t].watch = r, !.tasks[t].st = "waitRply"])

\* _wait_for_transition sees the _next_state of the watched WantRply
TaskPollRply(t) ==
    /\ tasks[t].st = "waitRply"
    /\ ~tasks[t].cancel
    /\ objs[tasks[t].watch].nextCls # None
    /\ RplyDone(Ctx, t, tasks[t].call, tasks[t].watch)

\* a timeout that does not tell the two waits apart: _ProtocolEchoFailed
\* whichever wait ran out
TaskTimeout_EchoOnly(t) ==
    /\ tasks[t].st \in {"waitEcho", "waitRply"}
    /\ ~tasks[t].cancel
    /\ InnerFails(Ctx, t, tasks[t].call, "_ProtocolEchoFailed")

\* _wait_for_transition finds its deadline passed
TaskTimeout(t) ==
    /\ tasks[t].st \in {"waitEcho", "waitRply"}
    /\ ~tasks[t].cancel
    /\ InnerFails(Ctx, t, tasks[t].call,
                  IF tasks[t].st = "waitEcho" THEN "_ProtocolEchoFailed"
                  ELSE "_ProtocolRplyFailed")

\* Task.cancel() takes effect: CancelledError ends the task where it waits
TaskCancelled(t) ==
    /\ tasks[t].st # "free"
    /\ tasks[t].cancel
    /\ Step(TaskEnds(Ctx, t))


\* --------------------------------------------------------------------- Next
\* the protocol as the application and an asyncio transport drive it: the
\* transport calls connection_made once, pause_writing and resume_writing in
\* pairs, packets while the connection is open, and connection_lost once.
\* No send_cmd call gets an entry into the queue, so a drain task finds the
\* queue empty and _send_cmd is never run.
Next ==
    \/ link = "new" /\ \E p \in BOOLEAN : connection_made(p)
    \/ link = "open" /\ connection_lost
    \/ link = "open" /\ state.cls # "IsPaused" /\ pause_writing
    \/ link = "open" /\ state.cls = "IsPaused" /\ resume_writing
    \/ link = "open" /\ \E h \in PktHdrs : pkt_received(h)
    \/ \E i \in Callers, o \in SendOpts : send_cmd(i, o[1], o[2])
    \/ \E t \in TaskIds : TaskStart(t, {})
    \/ \E t \in TaskIds : TaskCancelled(t)

Spec == Init /\ [][Next]_vars

\* the queue, the drain tasks and _send_cmd as they run once an entry is in
\* the queue: the same transport, with every send_cmd call past line 193
NextQueue ==
    \/ link = "new" /\ \E p \in BOOLEAN : connection_made(p)
    \/ link = "open" /\ connection_lost
    \/ link = "open" /\ state.cls # "IsPaused" /\ pause_writing
    \/ link = "open" /\ state.cls = "IsPaused" /\ resume_writing
    \/ link = "open" /\ \E h \in PktHdrs : pkt_received(h)
    \/ \E i \in Callers, o \in SendOpts : send_cmd_past_193(i, o[1], o[2])
    \/ \E i \in Callers : send_cmd_wakes(i)
    \/ \E i \in Callers : send_cmd_timeout(i)
    \/ \E i \in Callers : send_cmd_cancelled(i)
    \/ \E t \in TaskIds, E \in SUBSET {que[k] : k \in 1..Len(que)} : TaskStart(t, E)
    \/ \E t \in TaskIds : TaskSent(t)
    \/ \E t \in TaskIds : TaskPollEcho(t)
    \/ \E t \in TaskIds : TaskPollRply(t)
    \/ \E t \in TaskIds : TaskTimeout(t)
    \/ \E t \in TaskIds : TaskCancelled(t)

SpecQueue == Init /\ [][NextQueue]_vars

\* the commands of a burst of send_cmd calls
BurstOpts == {<<"II", "None">>, <<"RQ0", "None">>}

\* send_cmd calls made back to back (as by asyncio.gather), as many as fill
\* the queue and one more, every call past line 193, with the drain tasks
\* that run in between
NextBurst ==
    \/ link = "new" /\ \E p \in BOOLEAN : connection_made(p)
    \/ \E i \in CallIds, o \in BurstOpts : send_cmd_past_193(i, o[1], o[2])
    \/ \E t \in TaskIds : TaskStart(t, {})

SpecBurst == Init /\ [][NextBurst]_vars

\* the context and its state classes driven call by call, in any order, with
\* no send_cmd call: the callbacks, state.sent_cmd, and the drain tasks that
\* connection_made and the idle state start
NextFsm ==
    \/ \E p \in BOOLEAN : connection_made(p)
    \/ connection_lost
    \/ pause_writing
    \/ resume_writing
    \/ \E h \in PktHdrs : pkt_received(h)
    \/ \E c \in Cmds : SentCmd(c)
    \/ \E t \in TaskIds : TaskStart(t, {})
    \/ \E t \in TaskIds : TaskCancelled(t)

SpecFsm == Init /\ [][NextFsm]_vars

TypeOK ==
    /\ cur \in ObjIds
    /\ objs[cur].cls \in StateClasses
    /\ mutex \in BOOLEAN
    /\ procTask \in {NoTask, DoneTask} \cup TaskIds
    /\ \A k \in 1..Len(que) : que[k] \in CallIds
    /\ link \in {"new", "open", "closed"}
    /\ qlock \in {"free", "held", "blocked"}

\* ------------------------------------------------------------------- claims
\* the entry of call i is in the queue
InQue(i) == \E k \in 1..Len(que) : que[k] = i

\* a drain task is running _send_cmd for call i
Active(i) == \E t \in TaskIds : tasks[t].call = i

\* _send_cmd goes on to wait for the reply: the command has an rx_header and
\* the test of lines 306-310 is false
Awaited(c, w) == rx_header(c) # None /\ ~returns_echo(c, w)

InnerFailures == {"_ProtocolWaitFailed", "_ProtocolEchoFailed", "_ProtocolRplyFailed"}

C2_AwaitedSendFromIdle ==
    [][\A i \in Callers, o \in SendOpts :
          ( /\ state.cls = "IsInIdle"
            /\ Awaited(o[1], o[2])
            /\ send_cmd(i, o[1], o[2]) )
          => /\ calls'[i].pc = "waiting"
             /\ calls'[i].fut = "pending"
             /\ InQue(i)']_vars

\* C3: a send_cmd call for a command with no rx_header, made while the FSM is
\* in IsInIdle, gets its command on the way: the call waits for its future
\* with its entry in the queue, from where the drain sends it and the echo
\* completes it with the FSM back in IsInIdle.
C3_EchoOnlySendFromIdle ==
    [][\A i \in Callers, o \in SendOpts :
          ( /\ state.cls = "IsInIdle"
            /\ rx_header(o[1]) = None
            /\ send_cmd(i, o[1], o[2]) )
          => /\ calls'[i].pc = "waiting"
             /\ InQue(i)'
             /\ state'.cls = "IsInIdle"]_vars

C9_ReplyBeforeEcho ==
    (state.cls = "WantEcho" /\ rx_header(state.cmd) # None)
    => LET r == rcvd_pkt(Ctx, rx_header(state.cmd))
       IN  /\ r.exc = "ProtocolFsmError"
           /\ r.objs = objs
           /\ r.cur = cur
           /\ state.rply = None

\* a reply that came before the echo has just been rejected
C9_Witness ==
    /\ state.cls = "WantEcho"
    /\ rx_header(state.cmd) # None
    /\ state.echo = None
    /\ err = "ProtocolFsmError"

\* C10: in WantEcho or WantRply, sent_cmd with a command that is not the
\* active one raises ProtocolFsmError and leaves the state object, with its
\* class, command and cmd_sends, as it was.
C10_OtherCmdRejected ==
    [][\A c \in Cmds :
          ( /\ state.cls \in {"WantEcho", "WantRply"}
            /\ ~is_active_cmd(state, c)
            /\ SentCmd(c) )
          => /\ err' = "ProtocolFsmError"
             /\ state'.cls = state.cls
             /\ state'.cmd = state.cmd
             /\ state'.sends = state.sends]_vars

\* sent_cmd with another command has just been rejected in WantRply, after a
\* retransmission of the active one was counted
C10_Witness ==
    /\ state.cls = "WantRply"
    /\ state.sends > 1
    /\ err = "ProtocolFsmError"

C12_FourthSendFails ==
    (state.cls \in {"WantEcho", "WantRply"} /\ state.sends = DEFAULT_MAX_RETRIES)
    => sent_cmd(Ctx, state.cmd, state.own, DEFAULT_MAX_RETRIES).exc = "ProtocolSendFailed"

\* C13: in WantEcho or WantRply, sent_cmd with the active command, while
\* fewer than max_retries sends were counted, returns with cmd_sends one
\* higher and everything else as it was: the same state object, of the same
\* class, with the same command.
C13_ResendCounts ==
    \A c \in Cmds :
        ( /\ state.cls \in {"WantEcho", "WantRply"}
          /\ is_active_cmd(state, c)
          /\ state.sends < DEFAULT_MAX_RETRIES )
        => LET r == sent_cmd(Ctx, c, state.own, DEFAULT_MAX_RETRIES)
           IN  /\ r.exc = None
               /\ r.cur = cur
               /\ r.objs = [objs EXCEPT ![cur].sends = state.sends + 1]

\* the active command has been sent again in WantEcho
C13_Witness ==
    /\ state.cls = "WantEcho"
    /\ state.sends = 2
    /\ state.echo = None
    /\ err = None

\* C14: in WantRply, rcvd_pkt of a packet with the tx_header of the command
\* returns with nothing changed (the same WantRply object, with the same
\* command and cmd_sends), however often it is repeated; and rcvd_pkt of the
\* packet with the rx_header after it records the reply and takes the FSM to
\* IsInIdle.
C14_EchoAgainInWantRply ==
    state.cls = "WantRply"
    => LET r == rcvd_pkt(Ctx, tx_header(state.cmd))
           r2 == rcvd_pkt(r, rx_header(state.cmd))
       IN  /\ r = Ctx
           /\ r2.objs[r2.cur].cls = "IsInIdle"
           /\ r2.objs[cur].rply = rx_header(state.cmd)
           /\ r2.objs[cur].cmd = state.cmd

\* the FSM waits for a reply, and the last packet or call was taken without
\* an error
C14_Witness ==
    /\ state.cls = "WantRply"
    /\ state.echo = None
    /\ state.rply = None
    /\ state.sends = 1
    /\ err = None

MaxQueued == 6

\* the queue kept busy while callers give up: calls taken past line 193,
\* cancelled callers and the drain tasks' first runs
NextOrder ==
    \/ link = "new" /\ \E p \in BOOLEAN : connection_made(p)
    \/ \E i \in 1..MaxQueued : send_cmd_past_193(i, "II", "None")
    \/ \E i \in 1..MaxQueued : send_cmd_cancelled(i)
    \/ \E t \in TaskIds : TaskStart(t, {})

SpecOrder == Init /\ [][NextOrder]_vars

C17_ExpiredEntryFails ==
    [][\A t \in TaskIds, E \in SUBSET {que[k] : k \in 1..Len(que)} :
          (qlock = "free" /\ TaskStart(t, E))
          => \A i \in E :
                (calls[i].fut = "pending" /\ ~InQue(i)')
                => /\ calls'[i].fut = "exception"
                   /\ _send_next_in_queue(que, calls, E).calls[i].val = "_ProtocolWaitFailed"
                   /\ calls'[i].pc = "waiting" => calls'[i].val = "_ProtocolWaitFailed"
                   /\ calls'[i].ntx = calls[i].ntx
                   /\ calls'[i].inner = calls[i].inner
                   /\ \A u \in TaskIds : tasks'[u].call # i
                   /\ state'.cls \in {"WantEcho", "WantRply"} => state'.own # i
                   /\ \/ que' = <<>>
                      \/ \E j \in {que[k] : k \in 1..Len(que)} \ E :
                            /\ calls[j].fut = "pending" /\ ~InQue(j)'
                            /\ \/ tasks'[t].call = j
                               \/ calls'[j].inner = "_ProtocolWaitFailed"]_vars

\* the drain has failed the expired entry of call 1 and gone on to send the
\* command of call 2
C17_Witness ==
    /\ calls[1].fut = "exception" /\ calls[1].val = "_ProtocolWaitFailed"
    /\ calls[1].pc = "waiting" /\ calls[1].ntx = 0 /\ ~InQue(1)
    /\ Active(2) /\ calls[2].ntx = 1 /\ calls[2].fut = "pending"
    /\ state.cls = "WantEcho" /\ state.own = 2

\* ------------------------------------------------------------------- C18
\* C18: a send_cmd call i that was cancelled while its entry was still in the
\* queue (so before any dispatch) is never sent: in no step does a task take
\* up _send_cmd for i, is a transmission counted for i, or does the FSM hold
\* the command of i; a later send_cmd call takes the entry out of the queue
\* (remove_entries); and a drain task that takes the entry out goes on: it
\* activates a later entry that is live, or it has emptied the queue.
C18_CancelledNeverSent ==
    [][\A i \in Callers :
          (InQue(i) /\ calls[i].fut = "cancelled")
          => /\ calls'[i].fut = "cancelled"
             /\ calls'[i].ntx = 0
             /\ \A u \in TaskIds : tasks'[u].call # i
             /\ state'.cls \in {"WantEcho", "WantRply"} => state'.own # i
             /\ (\E j \in Callers, o \in SendOpts : send_cmd_past_193(j, o[1], o[2]))
                => ~InQue(i)'
             /\ \A t \in TaskIds, E \in SUBSET {que[k] : k \in 1..Len(que)} :
                   (qlock = "free" /\ TaskStart(t, E) /\ ~InQue(i)')
                   => \/ que' = <<>>
                      \/ \E j \in {que[k] : k \in 1..Len(que)} \ E :
                            /\ calls[j].fut = "pending" /\ ~InQue(j)'
                            /\ \/ tasks'[t].call = j
                               \/ calls'[j].inner = "_ProtocolWaitFailed"]_vars

\* the first drain task has passed over the entry of the cancelled call 1
\* and sent the command of call 2
C18_Witness ==
    /\ calls[1].fut = "cancelled" /\ calls[1].res = "CancelledError" /\ ~InQue(1)
    /\ procTask \in TaskIds /\ tasks[procTask].call = 2
    /\ calls[2].ntx = 1 /\ calls[2].fut = "pending"
    /\ state.cls = "WantEcho" /\ state.own = 2

C20_InactiveUntilConnected ==
    [][/\ (state.cls = "Inactive" /\ state'.cls # "Inactive")
          => \E p \in BOOLEAN :
                /\ connection_made(p)
                /\ state'.cls = IF p THEN "IsPaused" ELSE "IsInIdle"
       /\ (resume_writing /\ state.cls # "IsPaused") => state'.cls = state.cls
       /\ (pause_writing /\ state.cls \notin {"IsInIdle", "WantEcho", "WantRply"})
          => state'.cls = state.cls
       /\ (state'.cls = "WantEcho" /\ state.cls # "WantEcho") => link = "open"]_vars

\* ============================================================ packet.py
\* ------------------------------------------------------------------- C21
\* the addresses of frames: two gateways (type 18), two controllers, an
\* OpenTherm bridge and a radiator valve
Addrs ==
    {[type |-> "18", id |-> "18:000730"], [type |-> "18", id |-> "18:013393"],
     [type |-> "01", id |-> "01:145038"], [type |-> "01", id |-> "01:222222"],
     [type |-> "10", id |-> "10:078099"], [type |-> "04", id |-> "04:111111"]}

\* the frames given to _pkt_hdr: verb, code, src, dst and _ctx; the codes are
\* 1FC9 (binding) and two codes without rules of their own; pkt._ctx is a
\* string, or a bool (None here), which is not a string
Frames ==
    [verb : {"I", "RQ", "RP", "W"}, code : {"1FC9", "12B0", "2309"},
     src : Addrs, dst : Addrs, ctx : {"00", "01", None}]

\* "|".join(parts)
Join3(a, b, c) == a \o "|" \o b \o "|" \o c

\* the last line of _pkt_hdr: f"{header}|{pkt._ctx}" if _ctx is a str
WithCtx(header, pkt) == IF pkt.ctx # None THEN header \o "|" \o pkt.ctx ELSE header

\* packet._pkt_hdr(pkt, rx_header): rx is its argument rx_header
_pkt_hdr(pkt, rx) ==
    IF pkt.code = "1FC9"
    THEN IF ~rx THEN Join3(pkt.code, pkt.verb, pkt.dst.id)
         ELSE IF pkt.src = pkt.dst THEN Join3(pkt.code, "W", pkt.dst.id)
         ELSE IF pkt.verb = "W" THEN Join3(pkt.code, "I", pkt.dst.id)
         ELSE None
    ELSE LET addr == IF pkt.src.type = "18" THEN pkt.dst ELSE pkt.src
         IN  IF ~rx THEN WithCtx(Join3(pkt.code, pkt.verb, addr.id), pkt)
             ELSE IF pkt.verb \in {"I", "RP"} \/ pkt.src = pkt.dst THEN None
             ELSE WithCtx(Join3(pkt.code, IF pkt.verb = "RQ" THEN "RP" ELSE "I",
                                addr.id), pkt)

\* a Command is made of the frame pkt: its tx_header and its rx_header
MakeCommand(pkt) ==
    /\ cmd' = [pkt |-> pkt, tx |-> _pkt_hdr(pkt, FALSE), rx |-> _pkt_hdr(pkt, TRUE)]
    /\ UNCHANGED <<fsmVars, fn, gwy, tcs, job>>

NextHdr == \E pkt \in Frames : MakeCommand(pkt)

SpecHdr == Init /\ [][NextHdr]_vars

\* the frame that answers pkt: RP for RQ and I for W, the same code and _ctx,
\* source and destination swapped
ReplyTo(pkt) ==
    [pkt EXCEPT !.verb = IF pkt.verb = "RQ" THEN "RP" ELSE "I",
                !.src = pkt.dst, !.dst = pkt.src]

\* C21: for every RQ or W command with src different from dst and a code other
\* than 1FC9, the rx_header of the command is the header (_pkt_hdr without
\* rx_header) of the frame that answers it, whatever the type of the
\* command's source.
C21_RxHeaderIsReplyHdr ==
    ( /\ cmd.tx # None
      /\ cmd.pkt.verb \in {"RQ", "W"} /\ cmd.pkt.src # cmd.pkt.dst
      /\ cmd.pkt.code # "1FC9" )
    => cmd.rx = _pkt_hdr(ReplyTo(cmd.pkt), FALSE)

\* ------------------------------------------------------------ C22, C23
\* the addresses of the frames a gateway is given: the gateway itself, a
\* controller and a radiator valve
GwAddrs == {a \in Addrs : a.id \in {"18:000730", "01:145038", "04:111111"}}

\* frames as Packet.__init__ is given them, after _partition: the text
\* matches MESSAGE_REGEX (regex), its len field and its payload, its address
\* set gets through pkt_addrs (addr_set) or raises CorruptAddrSetError, and
\* the err_msg that came with it
GoodFrames ==
    [rssi : {"000", "045"}, src : GwAddrs, dst : GwAddrs, len : {1},
     payload : {"00"}, regex : {TRUE}, addr_set : {"ok"}, err_msg : {None}]

\* the same frames with one thing wrong
BadFrames ==
    UNION {{[f EXCEPT !.regex = FALSE], [f EXCEPT !.len = 3],
            [f EXCEPT !.addr_set = "corrupt"], [f EXCEPT !.err_msg = " * error"]}
           : f \in GoodFrames}

GwFrames == GoodFrames \cup BadFrames

\* is_valid without the test of the len field against the payload
is_valid_NoLengthCheck(f) ==
    IF f.err_msg # None THEN FALSE
    ELSE IF ~f.regex THEN FALSE
    ELSE IF f.addr_set # "ok" THEN FALSE
    ELSE TRUE

\* Packet.is_valid, first evaluation
is_valid(f) ==
    IF f.err_msg # None THEN FALSE
    ELSE IF ~f.regex THEN FALSE
    ELSE IF f.len * 2 # Len(f.payload) THEN FALSE
    ELSE IF f.addr_set # "ok" THEN FALSE
    ELSE TRUE

\* gwy._get_device(addr, ...): the device of that id is made if there is none
_get_device(g, addr) == [g EXCEPT !.device_by_id = @ \cup {addr.id}]

\* _create_devices(pkt). The src and dst of a new Packet are Address objects
\* and no Device, so of the branches that are left when neither is an 01: or
\* 23: and they differ, it is the last one (both) that is taken
_create_devices(g, f) ==
    IF f.src.type \in {"01", "23"} /\ f.src # f.dst
    THEN _get_device(_get_device(g, f.src), f.dst)
    ELSE IF f.dst.type \in {"01", "23"} /\ f.src # f.dst
    THEN _get_device(_get_device(g, f.dst), f.src)
    ELSE IF f.src = f.dst THEN _get_device(g, f.src)
    ELSE _get_device(_get_device(g, f.src), f.dst)

\* the config values of reduce_processing that matter to process_pkt
DONT_CREATE_ENTITIES == 2

\* process_pkt(pkt) for a Packet of the frame f
process_pkt(g, f, reduce_processing) ==
    IF ~is_valid(f) \/ reduce_processing >= DONT_CREATE_ENTITIES
    THEN [g EXCEPT !.frame = f, !.res = "False"]
    ELSE LET g1 == IF f.src.type # "18" THEN _create_devices(g, f) ELSE g
         IN  [g1 EXCEPT !.prev_pkt = f, !.frame = f, !.res = None]

\* Packet(gwy, dtm, frame) and, if that made a Packet, process_pkt of it
PacketIn(g, f, reduce_processing) ==
    IF ~is_valid(f) THEN [g EXCEPT !.frame = f, !.res = "ValueError"]
    ELSE process_pkt(g, f, reduce_processing)

\* the gateway is given the frame f
Receive(f, reduce_processing) ==
    /\ gwy' = PacketIn(gwy, f, reduce_processing)
    /\ UNCHANGED <<fsmVars, fn, cmd, tcs, job>>

NextGwy == \E f \in GwFrames, r \in {0, DONT_CREATE_ENTITIES} : Receive(f, r)

SpecGwy == Init /\ [][NextGwy]_vars

\* C22: processing a frame whose rssi is 000 makes no device, whatever the
\* source address of the frame: the devices of the gateway are the same
\* after it as before.
C22_EchoCreatesNothing ==
    \A f \in GwFrames, r \in {0, DONT_CREATE_ENTITIES} :
        f.rssi = "000"
        => PacketIn(gwy, f, r).device_by_id = gwy.device_by_id

\* C23: a frame that does not match the grammar, whose len field times 2 is
\* not the length of its payload, or whose address set is rejected, never
\* becomes a Packet (Packet() raises ValueError) and has no effect: no device
\* is made and the gateway's _prev_pkt stays what it was.
C23_InvalidFrameDropped ==
    /\ \A f \in GwFrames, r \in {0, DONT_CREATE_ENTITIES} :
          (~f.regex \/ f.len * 2 # Len(f.payload) \/ f.addr_set # "ok")
          => LET g == PacketIn(gwy, f, r)
             IN  /\ g.res = "ValueError"
                 /\ g.device_by_id = gwy.device_by_id
                 /\ g.prev_pkt = gwy.prev_pkt
    /\ gwy.prev_pkt # NoPacket
       => /\ gwy.prev_pkt.regex /\ gwy.prev_pkt.addr_set = "ok"
          /\ gwy.prev_pkt.len * 2 = Len(gwy.prev_pkt.payload)

\* a frame of mismatched length from a device that the gateway does not know
\* was dropped, after other frames had made a device and a previous packet
C23_Witness ==
    /\ gwy.res = "ValueError" /\ gwy.frame.len * 2 # Len(gwy.frame.payload)
    /\ gwy.frame.rssi = "045" /\ gwy.frame.src.id = "04:111111"
    /\ gwy.device_by_id = {"01:145038"}
    /\ gwy.prev_pkt # NoPacket /\ gwy.prev_pkt.src.id = "01:145038"

\* ======================================================================
\* zones.py: the System's zones, their type, sensor and actuators
\* ======================================================================

\* tcs.max_zones, kept small (DEFAULT_MAX_ZONES is 12)
max_zones == 3

\* int(zone_idx, 16) of the two hex digits; "HW" is no hex number
HexInt == [i \in ZoneIdxs |->
              CASE i = "00" -> 0 [] i = "01" -> 1 [] i = "02" -> 2
                [] i = "03" -> 3 [] i = "04" -> 4 [] OTHER -> 5]

\* the devices of the schemas and messages, each the one Device object that
\* gwy._zx_get_device returns for its id
ZoneDevs == { [id |-> "04:111111", type |-> "04"],
              [id |-> "13:000001", type |-> "13"],
              [id |-> "34:000001", type |-> "34"] }

\* no device: the None of a schema without a sensor
NoDev == [id |-> None, type |-> None]

\* isinstance(device, klass), by the device type of each class
isinstance(device, klass) ==
    CASE klass = "TrvActuator"   -> device.type = "04"
      [] klass = "BdrSwitch"     -> device.type = "13"
      [] klass = "UfhController" -> device.type = "02"
      [] klass = "Controller"    -> device.type = "01"
      [] klass = "Temperature"   -> device.type \in {"03", "04", "12", "22", "34"}
      [] klass = "DhwSensor"     -> device.type = "07"
      [] OTHER -> FALSE

\* the keys of _CLASS_BY_KLASS: every _ZON_KLASS of the module that is set
_CLASS_BY_KLASS == {"DHW", "ELE", "MIX", "RAD", "UFH", "VAL"}

\* the codes that Zone._discover and DhwZone._discover give to throttle_send
\* and send_code
ProbeCodes == {"0004", "000A", "12B0", "2349", "30C9", "10A0", "1260", "1F41"}

\* ZoneBase.__init__ and Zone.__init__: a zone with no type, sensor, actuator
\* and no message; _msgs[code] is the dtm of the message, in minutes (-1: the
\* code is no key of _msgs)
NewZone(idx) ==
    [klass |-> "Zone", idx |-> idx, _zone_type |-> None, _sensor |-> None,
     actuators |-> <<>>, _dhw_sensor |-> None, _dhw_valve |-> None,
     _htg_valve |-> None, _msgs |-> [c \in ProbeCodes |-> -1]]

\* a call that returned
Ok(z) == [z |-> z, exc |-> None]

\* a call that raised
Raised(z, exc) == [z |-> z, exc |-> exc]

\* set_zone_type: ZONE_TYPE_SLUGS.get(zone_type, zone_type) leaves a klass as
\* it is; the new type is refused only if the old type is set, is not ELE,
\* and the new type is not VAL
set_zone_type(z, zone_type) ==
    IF zone_type \notin _CLASS_BY_KLASS THEN Raised(z, "ValueError")
    ELSE IF z._zone_type = zone_type THEN Ok(z)
    ELSE IF z._zone_type # None /\ (z._zone_type # "ELE" /\ zone_type # "VAL")
         THEN Raised(z, "CorruptStateError")
    ELSE Ok([z EXCEPT !._zone_type = zone_type, !.klass = zone_type])

\* set_sensor that replaces the sensor
set_sensor_Replace(z, device) ==
    IF ~(isinstance(device, "Controller") \/ isinstance(device, "Temperature"))
    THEN Raised(z, "TypeError")
    ELSE Ok([z EXCEPT !._sensor = device.id])

\* set_sensor
set_sensor(z, device) ==
    IF z._sensor = device.id THEN Ok(z)
    ELSE IF z._sensor # None THEN Raised(z, "CorruptStateError")
    ELSE IF ~(isinstance(device, "Controller") \/ isinstance(device, "Temperature"))
         THEN Raised(z, "TypeError")
    ELSE Ok([z EXCEPT !._sensor = device.id])

\* add_actuator
add_actuator(z, device) ==
    IF ~(\/ isinstance(device, "TrvActuator") \/ isinstance(device, "BdrSwitch")
         \/ isinstance(device, "UfhController"))
    THEN Raised(z, "TypeError")
    ELSE IF \E k \in 1..Len(z.actuators) : z.actuators[k] = device.id
         THEN Ok(z)
    ELSE Ok([z EXCEPT !.actuators = Append(@, device.id)])

\* the loop over schema[SZ_ACTUATORS]: it ends at the first one that raises
RECURSIVE add_actuators(_, _)
add_actuators(z, devices) ==
    IF devices = <<>> THEN Ok(z)
    ELSE LET r == add_actuator(z, Head(devices))
         IN  IF r.exc # None THEN r ELSE add_actuators(r.z, Tail(devices))

\* the schemas given to Zone._zx_update_schema: a klass (XXX is no known
\* type), a sensor and actuators, each of them optional
MaxActuators == 2

Schemas ==
    [klass : _CLASS_BY_KLASS \cup {"XXX", None}, sensor : ZoneDevs \cup {NoDev},
     actuators : UNION { [1..n -> ZoneDevs] : n \in 0..MaxActuators }]

\* Zone._zx_update_schema: the klass, then the sensor, then the actuators
_zx_update_schema(z, schema) ==
    LET r1 == IF schema.klass # None THEN set_zone_type(z, schema.klass)
              ELSE Ok(z)
        r2 == IF r1.exc # None THEN r1
              ELSE IF schema.sensor # NoDev THEN set_sensor(r1.z, schema.sensor)
              ELSE r1
    IN  IF r2.exc # None THEN r2 ELSE add_actuators(r2.z, schema.actuators)

\* _set_system that puts the zone under its idx and not in zones
_set_system_NoAppend(s, z) ==
    IF z.idx # "HW" /\ HexInt[z.idx] >= max_zones
    THEN [s EXCEPT !.res = "TypeError"]
    ELSE IF z.idx = "HW"
         THEN [s EXCEPT !.objs = Append(@, z), !.res = None]
    ELSE IF s.zone_by_idx[z.idx] # 0 THEN [s EXCEPT !.res = "LookupError"]
    ELSE [s EXCEPT !.objs = Append(@, z),
                   !.zone_by_idx[z.idx] = Len(s.objs) + 1,
                   !.res = None]

\* ZoneBase._set_system: the zone is put under its idx and appended to zones,
\* unless it is the DHW zone
_set_system(s, z) ==
    IF z.idx # "HW" /\ HexInt[z.idx] >= max_zones
    THEN [s EXCEPT !.res = "TypeError"]
    ELSE IF z.idx = "HW"
         THEN [s EXCEPT !.objs = Append(@, z), !.res = None]
    ELSE IF s.zone_by_idx[z.idx] # 0 THEN [s EXCEPT !.res = "LookupError"]
    ELSE [s EXCEPT !.objs = Append(@, z),
                   !.zone_by_idx[z.idx] = Len(s.objs) + 1,
                   !.zones = Append(@, Len(s.objs) + 1),
                   !.res = None]

\* Zone.__init__: a duplicate idx and an idx of max_zones or more are refused
\* before the zone is made; int("HW", 16) raises ValueError
Zone__init__(s, zone_idx) ==
    IF zone_idx \in ZoneIdxs /\ s.zone_by_idx[zone_idx] # 0
    THEN [s EXCEPT !.res = "LookupError"]
    ELSE IF zone_idx \notin ZoneIdxs THEN [s EXCEPT !.res = "ValueError"]
    ELSE IF HexInt[zone_idx] >= max_zones THEN [s EXCEPT !.res = "ValueError"]
    ELSE _set_system(s, NewZone(zone_idx))

\* Zone(tcs, zone_idx) is called
CreateZone(zone_idx) ==
    /\ tcs' = Zone__init__(tcs, zone_idx)
    /\ UNCHANGED <<fsmVars, fn, cmd, gwy, job>>

\* zone._zx_update_schema(**schema) is called on the zone of an idx
UpdateZone(zone_idx, schema) ==
    /\ tcs.zone_by_idx[zone_idx] # 0
    /\ LET o == tcs.zone_by_idx[zone_idx]
           r == _zx_update_schema(tcs.objs[o], schema)
       IN  tcs' = [tcs EXCEPT !.objs[o] = r.z, !.res = r.exc]
    /\ UNCHANGED <<fsmVars, fn, cmd, gwy, job>>

\* self._set_zone_type(zone_type): zones.py calls it and does not define it;
\* if the Entity base class has it (has_setter) it is the setter of the type,
\* else the call raises AttributeError
_set_zone_type(z, zone_type, has_setter) ==
    IF has_setter THEN set_zone_type(z, zone_type)
    ELSE Raised(z, "AttributeError")

\* the messages routed to a zone: a code and the device that sent it, one of
\* them the controller of the system (01:145038), one a UFH controller
Msgs ==
    [code : {"0008", "3150", "30C9"},
     src : ZoneDevs \cup { [id |-> "01:145038", type |-> "01"],
                           [id |-> "02:000001", type |-> "02"] }]

\* eavesdrop_zone_type; asserts is FALSE when python runs with -O
eavesdrop_zone_type(z, this, asserts, has_setter) ==
    IF this.code \in {"0008", "0009"}
    THEN IF asserts /\ z._zone_type \notin {None, "ELE", "VAL", "MIX"}
         THEN Raised(z, "AssertionError")
         ELSE IF z._zone_type = None THEN _set_zone_type(z, "ELE", has_setter)
         ELSE Ok(z)
    ELSE IF this.code = "3150"
    THEN IF asserts /\ z._zone_type \notin {None, "RAD", "UFH", "VAL"}
         THEN Raised(z, "AssertionError")
         ELSE IF isinstance(this.src, "TrvActuator")
              THEN _set_zone_type(z, "RAD", has_setter)
         ELSE IF isinstance(this.src, "BdrSwitch")
              THEN _set_zone_type(z, "VAL", has_setter)
         ELSE IF isinstance(this.src, "UfhController")
              THEN _set_zone_type(z, "UFH", has_setter)
         ELSE Ok(z)
    ELSE Ok(z)

\* Zone._handle_msg for a message that is no 000C: the asserts on the source,
\* then eavesdropping while the type is None or ELE
_handle_msg(z, msg, asserts, has_setter, enable_eavesdrop) ==
    IF asserts /\ ~(msg.src.id = "01:145038" \/ msg.src.type = "02")
    THEN Raised(z, "AssertionError")
    ELSE IF enable_eavesdrop /\ z._zone_type \in {None, "ELE"}
         THEN eavesdrop_zone_type(z, msg, asserts, has_setter)
    ELSE Ok(z)

\* a message is routed to the zone of an idx
HandleMsg(zone_idx, msg, asserts, has_setter, enable_eavesdrop) ==
    /\ tcs.zone_by_idx[zone_idx] # 0
    /\ LET o == tcs.zone_by_idx[zone_idx]
           r == _handle_msg(tcs.objs[o], msg, asserts, has_setter,
                            enable_eavesdrop)
       IN  tcs' = [tcs EXCEPT !.objs[o] = r.z, !.res = r.exc]
    /\ UNCHANGED <<fsmVars, fn, cmd, gwy, job>>

\* one zone, its schema updates and its messages
NextZone ==
    \/ CreateZone("00")
    \/ \E schema \in Schemas : UpdateZone("00", schema)
    \/ \E msg \in Msgs, asserts \in BOOLEAN, has_setter \in BOOLEAN,
          enable_eavesdrop \in BOOLEAN :
          HandleMsg("00", msg, asserts, has_setter, enable_eavesdrop)

SpecZone == Init /\ [][NextZone]_vars

\* the zones of the system that are heating zones
HeatingZones == { o \in 1..Len(tcs.objs) : tcs.objs[o].idx # "HW" }

\* C24: a zone's type changes only from unknown to one of RAD, UFH, VAL, ELE,
\* MIX, or from ELE to VAL; setting the current type again changes nothing;
\* every other attempt raises CorruptStateError and leaves the type as it was
C24_TypeChangesOnlyByPromotion ==
    \A o \in HeatingZones, zone_type \in {"RAD", "UFH", "VAL", "ELE", "MIX"} :
        LET z == tcs.objs[o]
            r == set_zone_type(z, zone_type)
        IN  IF z._zone_type = zone_type THEN r = Ok(z)
            ELSE IF \/ z._zone_type = None
                       /\ zone_type \in {"RAD", "UFH", "VAL", "ELE", "MIX"}
                    \/ z._zone_type = "ELE" /\ zone_type = "VAL"
                 THEN r.exc = None /\ r.z._zone_type = zone_type
            ELSE r = Raised(z, "CorruptStateError")

\* C25: a zone of unknown type that receives a 3150 from a TrvActuator becomes
\* RAD, and a 3150 from a BdrSwitch to a RAD zone raises CorruptStateError and
\* leaves the zone RAD; stated for eavesdropping enabled and for the build
\* (asserts on or off, _set_zone_type present or not) that suits the claim best
C25_TrvThenBdr ==
    \A o \in HeatingZones :
        \E asserts \in BOOLEAN, has_setter \in BOOLEAN :
            LET z == tcs.objs[o]
                trv == [code |-> "3150", src |-> [id |-> "04:111111", type |-> "04"]]
                bdr == [code |-> "3150", src |-> [id |-> "13:000001", type |-> "13"]]
                r1 == _handle_msg(z, trv, asserts, has_setter, TRUE)
                r2 == _handle_msg(z, bdr, asserts, has_setter, TRUE)
            IN  /\ z._zone_type = None
                   => r1.exc = None /\ r1.z._zone_type = "RAD"
                /\ z._zone_type = "RAD"
                   => r2.exc = "CorruptStateError" /\ r2.z._zone_type = "RAD"

\* C26: a schema update that raises CorruptStateError or TypeError leaves the
\* zone as it was before the call: type, sensor and actuators unchanged
C26_FailedUpdateChangesNothing ==
    \A o \in HeatingZones, schema \in Schemas :
        LET z == tcs.objs[o]
            r == _zx_update_schema(z, schema)
        IN  r.exc \in {"CorruptStateError", "TypeError"}
            => /\ r.z._zone_type = z._zone_type
               /\ r.z._sensor = z._sensor
               /\ r.z.actuators = z.actuators

\* ----------------------------------------------------------- the DHW zone
\* the devices of the DHW schemas
DhwDevs == { [id |-> "07:000001", type |-> "07"],
             [id |-> "13:000001", type |-> "13"],
             [id |-> "13:000002", type |-> "13"] }

\* the schemas given to DhwZone._zx_update_schema
DhwSchemas ==
    [sensor : DhwDevs \cup {NoDev}, hotwater_valve : DhwDevs \cup {NoDev},
     heating_valve : DhwDevs \cup {NoDev}]

\* DhwZone.__init__: refused if the system has a DHW zone; the zone is not
\* put in zone_by_idx or zones; the system then keeps it as its _dhw
DhwZone__init__(s) ==
    IF s.dhw # 0 THEN [s EXCEPT !.res = "LookupError"]
    ELSE LET z == [NewZone("HW") EXCEPT !.klass = "DhwZone", !._zone_type = "DHW"]
             t == _set_system(s, z)
         IN  IF t.res # None THEN t ELSE [t EXCEPT !.dhw = Len(t.objs)]

\* DhwZone.schema: the id of the device of each role, a str, or None
schema(z) ==
    [sensor         |-> IF z._dhw_sensor # None THEN [str |-> z._dhw_sensor] ELSE NoDev,
     hotwater_valve |-> IF z._dhw_valve # None THEN [str |-> z._dhw_valve] ELSE NoDev,
     heating_valve  |-> IF z._htg_valve # None THEN [str |-> z._htg_valve] ELSE NoDev]

\* set_dhw_device: old_dev is an id (a str) or None, new_dev is a Device, and
\* `old_dev is new_dev` compares the two; val is the value returned
set_dhw_device(z, new_dev, schema_attr, dev_class) ==
    LET old_dev == schema(z)[schema_attr]
    IN  IF old_dev = new_dev THEN [exc |-> None, val |-> old_dev.str]
        ELSE IF old_dev # NoDev THEN [exc |-> "CorruptStateError", val |-> None]
        ELSE IF ~isinstance(new_dev, dev_class)
             THEN [exc |-> "TypeError", val |-> None]
        ELSE [exc |-> None, val |-> new_dev.id]

\* DhwZone._zx_update_schema: the sensor, the hot-water valve, the heating
\* valve, each one if the schema has it
Dhw_zx_update_schema(z, sch) ==
    LET a1 == IF sch.sensor # NoDev
              THEN set_dhw_device(z, sch.sensor, "sensor", "DhwSensor")
              ELSE [exc |-> None, val |-> z._dhw_sensor]
        z1 == [z EXCEPT !._dhw_sensor = a1.val]
        a2 == IF sch.hotwater_valve # NoDev
              THEN set_dhw_device(z1, sch.hotwater_valve, "hotwater_valve", "BdrSwitch")
              ELSE [exc |-> None, val |-> z1._dhw_valve]
        z2 == [z1 EXCEPT !._dhw_valve = a2.val]
        a3 == IF sch.heating_valve # NoDev
              THEN set_dhw_device(z2, sch.heating_valve, "heating_valve", "BdrSwitch")
              ELSE [exc |-> None, val |-> z2._htg_valve]
        z3 == [z2 EXCEPT !._htg_valve = a3.val]
    IN  IF a1.exc # None THEN Raised(z, a1.exc)
        ELSE IF a2.exc # None THEN Raised(z1, a2.exc)
        ELSE IF a3.exc # None THEN Raised(z2, a3.exc)
        ELSE Ok(z3)

\* DhwZone(tcs) is called
CreateDhw ==
    /\ tcs' = DhwZone__init__(tcs)
    /\ UNCHANGED <<fsmVars, fn, cmd, gwy, job>>

\* the schema of the DHW zone is updated
UpdateDhw(sch) ==
    /\ tcs.dhw # 0
    /\ LET r == Dhw_zx_update_schema(tcs.objs[tcs.dhw], sch)
       IN  tcs' = [tcs EXCEPT !.objs[tcs.dhw] = r.z, !.res = r.exc]
    /\ UNCHANGED <<fsmVars, fn, cmd, gwy, job>>

\* the zones of a system are made, and its DHW zone is made and updated
NextSys ==
    \/ \E zone_idx \in ZoneIdxs \cup {"HW"} : CreateZone(zone_idx)
    \/ CreateDhw
    \/ \E sch \in DhwSchemas : UpdateDhw(sch)

SpecSys == Init /\ [][NextSys]_vars

\* C27: a System holds at most one Zone per index, every heating zone's index
\* is below max_zones, zone_by_idx and zones hold the same zones, and making a
\* zone with a duplicate or out-of-range index fails and changes neither
C27_ZoneRegistry ==
    /\ \A a, b \in 1..Len(tcs.zones) :
          tcs.objs[tcs.zones[a]].idx = tcs.objs[tcs.zones[b]].idx => a = b
    /\ \A a \in 1..Len(tcs.zones) :
          /\ tcs.objs[tcs.zones[a]].idx \in ZoneIdxs
          /\ HexInt[tcs.objs[tcs.zones[a]].idx] < max_zones
          /\ tcs.zone_by_idx[tcs.objs[tcs.zones[a]].idx] = tcs.zones[a]
    /\ \A i \in ZoneIdxs :
          tcs.zone_by_idx[i] # 0
          => /\ \E a \in 1..Len(tcs.zones) : tcs.zones[a] = tcs.zone_by_idx[i]
             /\ tcs.objs[tcs.zone_by_idx[i]].idx = i
    /\ \A i \in ZoneIdxs :
          (tcs.zone_by_idx[i] # 0 \/ HexInt[i] >= max_zones)
          => LET s == Zone__init__(tcs, i)
             IN  /\ s.res \in {"LookupError", "ValueError"}
                 /\ s.zone_by_idx = tcs.zone_by_idx /\ s.zones = tcs.zones

\* a system that holds max_zones zones and no DHW zone has just refused a
\* zone with a duplicate index
C27_Witness ==
    /\ tcs.res = "LookupError" /\ tcs.dhw = 0
    /\ Len(tcs.zones) = max_zones

\* C28: a zone has at most one sensor: once a sensor is set no call changes
\* it, giving a different device as the sensor raises CorruptStateError and
\* keeps the sensor, and giving the same device again changes nothing
C28_OneSensor ==
    /\ [](\A o \in HeatingZones, device \in ZoneDevs :
            LET z == tcs.objs[o]
                r == _zx_update_schema(
                         z, [klass |-> None, sensor |-> device, actuators |-> <<>>])
            IN  z._sensor # None
                => IF device.id = z._sensor THEN r = Ok(z)
                   ELSE r = Raised(z, "CorruptStateError"))
    /\ [][\A o \in HeatingZones :
            tcs.objs[o]._sensor # None
            => tcs'.objs[o]._sensor = tcs.objs[o]._sensor]_vars

\* a zone with a sensor, no type and no actuator has just refused an update:
\* the update gave another sensor
C28_Witness ==
    /\ tcs.zone_by_idx["00"] # 0
    /\ tcs.res = "CorruptStateError"
    /\ tcs.objs[tcs.zone_by_idx["00"]]._sensor = "04:111111"
    /\ tcs.objs[tcs.zone_by_idx["00"]]._zone_type = None
    /\ tcs.objs[tcs.zone_by_idx["00"]].actuators = <<>>

\* C29: a DHW zone holds at most one device per role: an update that names
\* the device a role already has is accepted and changes nothing, and an
\* update that names another device for a filled role raises
\* CorruptStateError and keeps the role's device
C29_DhwRoleKeepsDevice ==
    tcs.dhw # 0
    => \A device \in DhwDevs :
           LET z == tcs.objs[tcs.dhw]
               rs == Dhw_zx_update_schema(
                         z, [sensor |-> device, hotwater_valve |-> NoDev,
                             heating_valve |-> NoDev])
               rv == Dhw_zx_update_schema(
                         z, [sensor |-> NoDev, hotwater_valve |-> device,
                             heating_valve |-> NoDev])
               rh == Dhw_zx_update_schema(
                         z, [sensor |-> NoDev, hotwater_valve |-> NoDev,
                             heating_valve |-> device])
           IN  /\ z._dhw_sensor # None
                  => IF device.id = z._dhw_sensor THEN rs = Ok(z)
                     ELSE rs = Raised(z, "CorruptStateError")
               /\ z._dhw_valve # None
                  => IF device.id = z._dhw_valve THEN rv = Ok(z)
                     ELSE rv = Raised(z, "CorruptStateError")
               /\ z._htg_valve # None
                  => IF device.id = z._htg_valve THEN rh = Ok(z)
                     ELSE rh = Raised(z, "CorruptStateError")

\* ======================================================================
\* helpers.py: schedule_task, the task of a periodic probe
\* ======================================================================

\* the runs of func after which the task is left alone
MaxRuns == 4

\* schedule_task(func, delay=delay, period=period): the task is created and
\* schedule_func runs up to its first await
ScheduleTask(delay, period) ==
    /\ job.pc = "none"
    /\ job' = [job EXCEPT !.delay = delay, !.period = period,
                          !.pc = IF delay # 0 THEN "sleep" ELSE "first",
                          !.left = delay]
    /\ UNCHANGED <<fsmVars, fn, cmd, gwy, tcs>>

\* a second of asyncio.sleep passes; after the last one schedule_func goes on:
\* to the run after the delay, or to the head of the loop
Tick ==
    /\ job.pc \in {"sleep", "loop_sleep"} /\ job.left > 0
    /\ job' = [job EXCEPT !.left = @ - 1, !.now = @ + 1,
                          !.pc = IF job.left > 1 THEN @
                                 ELSE IF @ = "sleep" THEN "first" ELSE "loop"]
    /\ UNCHANGED <<fsmVars, fn, cmd, gwy, tcs>>

\* execute_func: one run of func
execute_func(j) ==
    [j EXCEPT !.runs = @ + 1, !.last = j.now,
              !.gap = IF j.last = -1 THEN -1 ELSE j.now - j.last]

\* await execute_func(...) after the delay, then `while period`
FirstRun ==
    /\ job.pc = "first"
    /\ job' = [execute_func(job) EXCEPT
                  !.pc = IF job.period # 0 THEN "loop" ELSE "done"]
    /\ UNCHANGED <<fsmVars, fn, cmd, gwy, tcs>>

\* the body of the loop: await execute_func(...), then asyncio.sleep(period)
LoopRun ==
    /\ job.pc = "loop" /\ job.runs < MaxRuns
    /\ job' = [execute_func(job) EXCEPT !.pc = "loop_sleep", !.left = job.period]
    /\ UNCHANGED <<fsmVars, fn, cmd, gwy, tcs>>

\* the task of one probe; the delays and periods are in seconds (0: None),
\* the delays those of ZoneBase._start_discovery, the periods short
NextJob ==
    \/ \E delay \in {0, 1, 3, 5}, period \in {0, 2, 3} :
          ScheduleTask(delay, period)
    \/ Tick
    \/ FirstRun
    \/ LoopRun

SpecJob == Init /\ [][NextJob]_vars

\* C30: a probe scheduled with delay d and period p runs for the first time
\* after d, and any two consecutive runs of it are a wait of p apart
C30_RunsOncePerPeriod ==
    /\ job.runs = 1 => job.last = job.delay
    /\ job.gap # -1 => job.gap = job.period

\* ======================================================================
\* zones.py: _discover, the throttled probes of a zone and of the DHW zone
\* ======================================================================

\* the cached messages of the model, and the minutes the clock runs
MaxCached == 1

MaxNow == 17

\* throttle_send / send_code: is the command sent: there is no message of the
\* code, or its dtm + minutes is before now
throttle_send(z, code, minutes, now) ==
    z._msgs[code] = -1 \/ z._msgs[code] + minutes < now

\* Zone._discover and DhwZone._discover for a discover_flag without SCHEMA:
\* the codes of the commands sent, in order (PARAMS is 2, STATUS is 4)
_discover(z, discover_flag, now) ==
    LET probes ==
            IF z.klass = "DhwZone"
            THEN (IF (discover_flag \div 2) % 2 = 1
                  THEN << <<"10A0", 15>> >> ELSE <<>>)
                 \o (IF (discover_flag \div 4) % 2 = 1
                     THEN << <<"1260", 2>>, <<"1F41", 2>> >> ELSE <<>>)
            ELSE (IF (discover_flag \div 2) % 2 = 1
                  THEN << <<"0004", 15>>, <<"000A", 15>> >> ELSE <<>>)
                 \o (IF (discover_flag \div 4) % 2 = 1
                     THEN << <<"12B0", 15>>, <<"2349", 2>>, <<"30C9", 2>> >>
                     ELSE <<>>)
        Sends(p) == throttle_send(z, p[1], p[2], now)
        sent == SelectSeq(probes, Sends)
    IN  [k \in 1..Len(sent) |-> sent[k][1]]

\* a message of a code is put in the _msgs of a zone, its dtm is now
CacheMsg(o, code) ==
    /\ o \in 1..Len(tcs.objs)
    /\ Cardinality({ <<q, c>> \in (1..Len(tcs.objs)) \X ProbeCodes :
                        tcs.objs[q]._msgs[c] # -1 /\ <<q, c>> # <<o, code>> })
          < MaxCached
    /\ tcs' = [tcs EXCEPT !.objs[o]._msgs[code] = tcs.now]
    /\ UNCHANGED <<fsmVars, fn, cmd, gwy, job>>

\* a minute passes
Minute ==
    /\ tcs.now < MaxNow
    /\ tcs' = [tcs EXCEPT !.now = @ + 1]
    /\ UNCHANGED <<fsmVars, fn, cmd, gwy, job>>

\* zone._discover(discover_flag=...) is called
Discover(o, discover_flag) ==
    /\ o \in 1..Len(tcs.objs)
    /\ tcs' = [tcs EXCEPT !.sent = _discover(tcs.objs[o], discover_flag, tcs.now),
                          !.res = None]
    /\ UNCHANGED <<fsmVars, fn, cmd, gwy, job>>

\* a zone and the DHW zone, their messages and their probes
NextProbe ==
    \/ CreateZone("00")
    \/ CreateDhw
    \/ \E o \in 1..2, code \in ProbeCodes : CacheMsg(o, code)
    \/ Minute
    \/ \E o \in 1..2, discover_flag \in {2, 4, 6} : Discover(o, discover_flag)

SpecProbe == Init /\ [][NextProbe]_vars

\* C31: a throttled probe for an opcode is sent if and only if the entity has
\* no message of the opcode or its message is older than the opcode's window:
\* 15 minutes for 0004, 000A and 10A0, 2 minutes for every other opcode
C31_ProbeSentIffStale ==
    \A o \in 1..Len(tcs.objs) :
        LET z == tcs.objs[o]
            sent == _discover(z, 6, tcs.now)
            mine == IF z.klass = "DhwZone" THEN {"10A0", "1260", "1F41"}
                    ELSE {"0004", "000A", "12B0", "2349", "30C9"}
        IN  \A code \in mine :
                (\E k \in 1..Len(sent) : sent[k] = code)
                <=> \/ z._msgs[code] = -1
                    \/ z._msgs[code]
                         + (IF code \in {"0004", "000A", "10A0"} THEN 15 ELSE 2)
                       < tcs.now

\* ======================================================================
\* helpers.py: dev_id_to_hex and hex_id_to_dec
\* ======================================================================

\* the digits of a number in a string, as int() reads them and a format spec
\* writes them; a str is the sequence of its characters
HexChars ==
    <<"0", "1", "2", "3", "4", "5", "6", "7", "8", "9", "A", "B", "C", "D",
      "E", "F">>

\* int(s, base)
RECURSIVE int(_, _)
int(s, base) ==
    IF s = <<>> THEN 0
    ELSE int(SubSeq(s, 1, Len(s) - 1), base) * base
         + (CHOOSE k \in 0..15 : HexChars[k + 1] = s[Len(s)])

\* f"{n:0>6X}", f"{n:02d}", f"{n:06d}": the digits of n to the base, upper
\* case, filled with 0 to the width and longer if n needs it
RECURSIVE format(_, _, _)
format(n, base, width) ==
    IF width <= 1 /\ n < base THEN <<HexChars[n + 1]>>
    ELSE format(n \div base, base, width - 1) \o <<HexChars[(n % base) + 1]>>

\* dev_id_to_hex with the type shifted by 16 bits
dev_id_to_hex_Shift16(device_id) ==
    LET dev_type == IF Len(device_id) = 9 THEN SubSeq(device_id, 1, 2)
                    ELSE SubSeq(device_id, 2, 3)
    IN  format(int(dev_type, 10) * 65536
                 + int(SubSeq(device_id, Len(device_id) - 5, Len(device_id)), 10),
               16, 6)

\* dev_id_to_hex: (int(dev_type) << 18) + int(device_id[-6:]), as six hex
\* digits; an id of ten characters has its type in device_id[1:3] unless its
\* first three are a name of DEVICE_LOOKUP
dev_id_to_hex(device_id) ==
    LET dev_type == IF Len(device_id) = 9 THEN SubSeq(device_id, 1, 2)
                    ELSE SubSeq(device_id, 2, 3)
    IN  format(int(dev_type, 10) * 262144
                 + int(SubSeq(device_id, Len(device_id) - 5, Len(device_id)), 10),
               16, 6)

\* hex_id_to_dec(device_hex), friendly_id False: FFFFFE is NUL_DEV_ADDR.id, a
\* blank is NON_DEV_ADDR.id, else the type is (_tmp & 0xFC0000) >> 18 and the
\* tag is _tmp & 0x03FFFF
hex_id_to_dec(device_hex) ==
    IF device_hex = <<"F", "F", "F", "F", "F", "E">>
    THEN <<"6", "3", ":", "2", "6", "2", "1", "4", "2">>
    ELSE IF \A k \in 1..Len(device_hex) : device_hex[k] = " "
    THEN <<"-", "-", ":", "-", "-", "-", "-", "-", "-">>
    ELSE LET _tmp == int(device_hex, 16)
         IN  format((_tmp % 16777216) \div 262144, 10, 2) \o <<":">>
             \o format(_tmp % 262144, 10, 6)

\* dev_id_to_hex is called with the id of a device, hex_id_to_dec with what
\* it returned
ConvertId(type, tag) ==
    /\ LET device_id == format(type, 10, 2) \o <<":">> \o format(tag, 10, 6)
       IN  fn' = [op |-> "dev_id_to_hex", type |-> type, tag |-> tag,
                  device_id |-> device_id, hex |-> dev_id_to_hex(device_id),
                  dec |-> hex_id_to_dec(dev_id_to_hex(device_id))]
    /\ UNCHANGED <<fsmVars, cmd, gwy, tcs, job>>

\* ------------------------------------------------- zones.py: heat_demand
\* the devices of a zone in the model
MaxChildren == 2

\* _transform(valve_pos): valve_pos is given in 1/200 (the unit of a 3150
\* payload), the demand is returned in 1/100; v = valve_pos * 100 is k / 2,
\* so floor((v - t1) * t1 / (t2 - t1) + t0 + 0.5) is the quotient below
_transform(k) ==
    IF k <= 2 * 30 THEN 0
    ELSE LET t == IF k <= 2 * 70 THEN <<0, 30, 70>> ELSE <<30, 70, 100>>
         IN  ((k - 2 * t[2]) * t[2] + (2 * t[1] + 1) * (t[3] - t[2]))
             \div (2 * (t[3] - t[2]))

\* heat_demand that takes the demand of the first device that reports one
heat_demand_First(devices) ==
    LET demands == SelectSeq(devices, LAMBDA d : d >= 0)
    IN  IF demands # <<>> THEN _transform(demands[1]) ELSE -1

\* Zone.heat_demand: devices holds the heat_demand of each device of the
\* zone (-2: the device has no such attribute, -1: it is None); the result
\* is -1 for None
heat_demand(devices) ==
    LET demands == SelectSeq(devices, LAMBDA d : d >= 0)
        all == demands \o <<0>>
        max == CHOOSE m \in {all[i] : i \in 1..Len(all)} :
                   \A i \in 1..Len(all) : all[i] <= m
    IN  IF demands # <<>> THEN _transform(max) ELSE -1

\* zone.heat_demand is read
ReadHeatDemand(devices) ==
    /\ fn' = [op |-> "heat_demand", devices |-> devices,
              val |-> heat_demand(devices)]
    /\ UNCHANGED <<fsmVars, cmd, gwy, tcs, job>>

\* the functions of helpers.py and the properties of a zone, each called with
\* arguments of its domain
NextCalc ==
    \/ \E type \in 0..63, tag \in {0, 1, 99999, 145038, 262142, 262143} :
          ConvertId(type, tag)
    \/ \E n \in 0..MaxChildren :
          \E devices \in [1..n -> {-2, -1, 0, 60, 61, 62, 100, 140, 141, 200}] :
              ReadHeatDemand(devices)

SpecCalc == Init /\ [][NextCalc]_vars

\* C32: for a device id with type 00..63 and tag 000000..262143,
\* dev_id_to_hex gives (type << 18) | tag as exactly six upper-case hex
\* characters, and hex_id_to_dec of that result is the id
C32_HexRoundTrip ==
    fn.op = "dev_id_to_hex"
    => /\ Len(fn.hex) = 6
       /\ \A k \in 1..6 : \E h \in 1..16 : HexChars[h] = fn.hex[k]
       /\ int(fn.hex, 16) = fn.type * 262144 + fn.tag
       /\ fn.dec = fn.device_id

\* the id of the null device, 63:262142, was converted to FFFFFE and back
C32_Witness ==
    /\ fn.op = "dev_id_to_hex" /\ fn.type = 63 /\ fn.tag = 262142
    /\ fn.hex = <<"F", "F", "F", "F", "F", "E">>
    /\ fn.dec = <<"6", "3", ":", "2", "6", "2", "1", "4", "2">>

C35_OneDrainInFlight ==
    Cardinality({t \in TaskIds : tasks[t].st # "free" /\ ~tasks[t].cancel}) <= 1

\* ------------------------------------------------------------------- C36
\* C36: in WantEcho or WantRply for a command that is not the puzzle command,
\* the puzzle command (code 7FFF) counts as the active command, and sent_cmd
\* with it is accepted: it does not raise ProtocolFsmError.
C36_PuzzleAlwaysActive ==
    (state.cls \in {"WantEcho", "WantRply"} /\ state.cmd # "PZ")
    => /\ is_active_cmd(state, "PZ")
       /\ sent_cmd(Ctx, "PZ", 0, DEFAULT_MAX_RETRIES).exc # "ProtocolFsmError"

\* ------------------------------------------------------------------- C37
\* C37: in every reachable state, a state of class Inactive, IsPaused,
\* IsInIdle or IsFailed has no command and a cmd_sends of 0, and a WantEcho or
\* WantRply has a command and a cmd_sends of at least 1, the command of a
\* WantRply being one with an rx_header; and a step that takes the FSM into
\* WantRply starts from a WantEcho and carries its command and its cmd_sends
\* over unchanged.
C37_StateCarriesCmd ==
    /\ [](/\ state.cls \in {"Inactive", "IsPaused", "IsInIdle", "IsFailed"}
             => (state.cmd = None /\ state.sends = 0)
          /\ state.cls \in {"WantEcho", "WantRply"}
             => (state.cmd \in Cmds /\ state.sends >= 1)
          /\ state.cls = "WantRply" => rx_header(state.cmd) # None)
    /\ [][(state.cls # "WantRply" /\ state'.cls = "WantRply")
          => /\ state.cls = "WantEcho"
             /\ state'.cmd = state.cmd
             /\ state'.sends = state.sends]_vars

\* the FSM is in WantRply for a command that was sent twice before its echo
\* came
C37_Witness ==
    /\ state.cls = "WantRply"
    /\ state.sends = 2
    /\ rx_header(state.cmd) # None
    /\ err = None

\* ------------------------------------------------------------------- C38
\* C38: rcvd_pkt of a packet whose hdr is neither the tx_header nor the
\* rx_header of the active command returns with nothing changed (the same
\* state object, with its class, command and cmd_sends), and so does rcvd_pkt
\* of any packet in Inactive, IsPaused, IsInIdle and IsFailed.
C38_OtherPktIgnored ==
    \A h \in PktHdrs :
        ( \/ state.cls \in {"Inactive", "IsPaused", "IsInIdle", "IsFailed"}
          \/ /\ state.cls \in {"WantEcho", "WantRply"}
             /\ h # tx_header(state.cmd)
             /\ h # rx_header(state.cmd) )
        => rcvd_pkt(Ctx, h) = Ctx

\* the FSM waits for the echo of RQ/12B0 after a packet of another device, or
\* the echo of another command, was received without an error
C38_Witness ==
    /\ state.cls = "WantEcho" /\ state.cmd = "RQ0"
    /\ state.sends = 1 /\ state.echo = None
    /\ err = None
    /\ rcvd_pkt(Ctx, "30C9|I|04:111111") = Ctx
    /\ rcvd_pkt(Ctx, tx_header("II")) = Ctx

\* ------------------------------------------------------------------- C39
\* the transport pausing and resuming while commands are sent: every
\* send_cmd call past line 193, the drain tasks up to the end of _send_cmd,
\* and no timeout
NextPause ==
    \/ link = "new" /\ \E p \in BOOLEAN : connection_made(p)
    \/ link = "open" /\ state.cls # "IsPaused" /\ pause_writing
    \/ link = "open" /\ state.cls = "IsPaused" /\ resume_writing
    \/ link = "open" /\ \E h \in PktHdrs : pkt_received(h)
    \/ \E i \in Callers, o \in BurstOpts : send_cmd_past_193(i, o[1], o[2])
    \/ \E t \in TaskIds : TaskStart(t, {})
    \/ \E t \in TaskIds : TaskSent(t)
    \/ \E t \in TaskIds : TaskPollEcho(t)
    \/ \E t \in TaskIds : TaskPollRply(t)

SpecPause == Init /\ [][NextPause]_vars

C40_MutexReleased == ~mutex

====
